---- MODULE Spec2Model ----
(***************************************************************************)
(* Model of the interactive frequency/time Gantt view                      *)
(* (src/interface/src/tools/app.rs and its helpers): the ticker thread and *)
(* the stdin reader thread as producers, and MyApp::update as the single   *)
(* consumer, one render frame being the sequence of steps                  *)
(*   recv -> detect -> panel -> plot -> tooltip -> recv ...                *)
(*                                                                         *)
(* Numbers.  f64 values are integers here.  Frequencies (MHz) and times    *)
(* (ms) keep their value; a value produced by f64::log10 is held in        *)
(* thousandths (log10(20.0) = 1.30103 is 1301), so a plot-space X is MHz   *)
(* in linear mode and thousandths of a decade in log mode.                 *)
(* Option<T>: None is the empty tuple, Some(x) the one-element tuple.      *)
(***************************************************************************)
EXTENDS Integers, Sequences, FiniteSets, TLC

\* ------------------------------------------------------------------ bounds
MaxTicks == 6        \* tokens the ticker sends in a run
MaxLines == 1        \* lines the stdin reader pushes in a run
MaxLen == 3          \* longest task list the recipe check starts from
MaxStepArg == 9      \* largest step handed to update_tasks in the recipe check
MaxHoverLen == 1     \* longest task list the hover check starts from

\* --------------------------------------------------------------- constants
MIN_FREQ == 20
MAX_FREQ == 6000
MAX_TIME == 1000
RecipeLen == 5

None == << >>
Some(x) == << x >>

\* f64::log10 on the frequencies the program takes it of, in thousandths.
log10(f) ==
  CASE f = 20 -> 1301
    [] f = 100 -> 2000
    [] f = 300 -> 2477
    [] f = 500 -> 2699
    [] f = 960 -> 2982
    [] f = 1000 -> 3000
    [] f = 1215 -> 3085
    [] f = 2400 -> 3380
    [] f = 2500 -> 3398
    [] f = 5000 -> 3699
    [] f = 5500 -> 3740
    [] f = 6000 -> 3778

get_bounds(log) ==
  IF log THEN << log10(MIN_FREQ), log10(MAX_FREQ) >>
         ELSE << MIN_FREQ, MAX_FREQ >>

\* MyApp::bands: (amplifier, start, end); Rust index i is bands[i + 1].
bands ==
  << << "A20_500", 20, 500 >>,
     << "A500_1000", 500, 1000 >>,
     << "A960_1215", 960, 1215 >>,
     << "A1000_2500", 1000, 2500 >>,
     << "A2400_6000", 2400, 6000 >> >>

BandIdx == 0 .. (Len(bands) - 1)

Task(n, fs, fe, ts, te, amp) ==
  [ name |-> n, freq_start |-> fs, freq_end |-> fe,
    time_start |-> ts, time_end |-> te, amplifier |-> amp ]

InitCapteurs == Task("Init capteurs", 100, 300, 0, 300, "A20_500")
Transmission == Task("Transmission", 1000, 2500, 300, 600, "A1000_2500")
SleepMode == Task("Sleep mode", 5000, 5500, 0, 1000, "A2400_6000")

\* Vec::pop: the list without its last element; an empty list stays empty.
pop(ts) == IF ts = << >> THEN << >> ELSE SubSeq(ts, 1, Len(ts) - 1)

update_tasks_mod5(ts, step) ==
  CASE step % 5 = 0 -> Append(ts, InitCapteurs)
    [] step % 5 = 1 -> Append(ts, Transmission)
    [] step % 5 = 2 -> pop(ts)
    [] step % 5 = 3 -> Append(ts, SleepMode)
    [] step % 5 = 4 -> << >>

update_tasks_pop_first(ts, step) ==
  CASE step = 0 -> Append(ts, InitCapteurs)
    [] step = 1 -> Append(ts, Transmission)
    [] step = 2 -> IF ts = << >> THEN << >> ELSE Tail(ts)
    [] step = 3 -> Append(ts, SleepMode)
    [] step = 4 -> << >>
    [] OTHER -> ts

update_tasks_bad_range(ts, step) ==
  CASE step = 0 -> Append(ts, InitCapteurs)
    [] step = 1 -> Append(ts, Transmission)
    [] step = 2 -> pop(ts)
    [] step = 3 -> Append(ts, Task("Sleep mode", 5000, 5500, 0, MAX_TIME + 100,
                                   "A2400_6000"))
    [] step = 4 -> << >>
    [] OTHER -> ts

update_tasks_keep_on_clear(ts, step) ==
  CASE step = 0 -> Append(ts, InitCapteurs)
    [] step = 1 -> Append(ts, Transmission)
    [] step = 2 -> pop(ts)
    [] step = 3 -> Append(ts, SleepMode)
    [] OTHER -> ts

update_tasks(ts, step) ==
  CASE step = 0 -> Append(ts, InitCapteurs)
    [] step = 1 -> Append(ts, Transmission)
    [] step = 2 -> pop(ts)
    [] step = 3 -> Append(ts, SleepMode)
    [] step = 4 -> << >>
    [] OTHER -> ts

\* Receiver::try_recv on a queue q with `senders` live Sender handles.
try_recv(q, senders) ==
  IF q # << >> THEN [ ok |-> TRUE, val |-> Head(q), err |-> "" ]
  ELSE IF senders > 0 THEN [ ok |-> FALSE, val |-> 0, err |-> "Empty" ]
  ELSE [ ok |-> FALSE, val |-> 0, err |-> "Disconnected" ]

\* ----------------------------------------------------- zones and hovering
\* 10f64.powf(x) on the pointer abscissas of Pointers, x in thousandths, the
\* result in MHz rounded to the unit (10^0.2 = 1.58, 10^1.1 = 12.6,
\* 10^2.301 = 199.99, 10^3.041 = 1099.0).
powf10(x) ==
  CASE x = 200 -> 2
    [] x = 1100 -> 13
    [] x = 2301 -> 200
    [] x = 3041 -> 1099

Zone(n, area) == [ name |-> n, area |-> area ]

\* A rectangle as get_background_zones lists its vertices.
zone_rect(f_start, f_end, y_max) ==
  << << f_start, 0 >>, << f_end, 0 >>, << f_end, y_max >>, << f_start, y_max >> >>

\* get_background_zones with BackgroundZone::name: the receiver zone, then
\* the five amplifier zones (height 1100, 1125 for 960-1215).
get_background_zones ==
  << Zone("Zone de réception", zone_rect(MIN_FREQ, MAX_FREQ, 100)),
     Zone("Amplifier 20-500MHz", zone_rect(20, 500, 1100)),
     Zone("Amplifier 500-1000MHz", zone_rect(500, 1000, 1100)),
     Zone("Amplifier 960-1215MHz", zone_rect(960, 1215, 1100 + 25)),
     Zone("Amplifier 1000-2500MHz", zone_rect(1000, 2500, 1100)),
     Zone("Amplifier 2400-6000MHz", zone_rect(2400, 6000, 1100)) >>

edge_toggles_closed(pi, pj, x, y) ==
  LET xi == pi[1]
      yi == pi[2]
      xj == pj[1]
      yj == pj[2]
      d == yj - yi
  IN /\ (yi > y) # (yj > y)
     /\ IF d > 0 THEN (x - xi) * d <= (xj - xi) * (y - yi)
                 ELSE (x - xi) * d >= (xj - xi) * (y - yi)

\* One edge test of the ray casting, i the current vertex and j the previous:
\*   (yi > y) != (yj > y) && x < (xj - xi) * (y - yi) / (yj - yi + EPSILON) + xi
\* The second operand is evaluated only when yi # yj; every such difference
\* is at least 100 here, where adding f64::EPSILON leaves the f64 unchanged,
\* so the quotient is compared exactly, cross-multiplied by d = yj - yi.
edge_toggles(pi, pj, x, y) ==
  LET xi == pi[1]
      yi == pi[2]
      xj == pj[1]
      yj == pj[2]
      d == yj - yi
  IN /\ (yi > y) # (yj > y)
     /\ IF d > 0 THEN (x - xi) * d < (xj - xi) * (y - yi)
                 ELSE (x - xi) * d > (xj - xi) * (y - yi)

contains_any_crossing(area, x, y) ==
  LET n == Len(area)
      prev(i) == IF i = 1 THEN n ELSE i - 1
      toggles == { i \in 1 .. n : edge_toggles(area[i], area[prev(i)], x, y) }
  IN toggles # { }

\* BackgroundZone::contains: even-odd rule over the edges (i, j), j starting
\* at n - 1 and following i.
contains(area, x, y) ==
  LET n == Len(area)
      prev(i) == IF i = 1 THEN n ELSE i - 1
      toggles == { i \in 1 .. n : edge_toggles(area[i], area[prev(i)], x, y) }
  IN Cardinality(toggles) % 2 = 1

\* The task hit test of the tooltip loop.
task_hit(t, freq, y) ==
  /\ freq >= t.freq_start /\ freq <= t.freq_end
  /\ y >= t.time_start /\ y <= t.time_end

\* Index of the task the loop breaks on, 0 when it runs to the end.
first_hit(ts, freq, y) ==
  LET hits == { i \in 1 .. Len(ts) : task_hit(ts[i], freq, y) }
  IN IF hits = { } THEN 0 ELSE CHOOSE i \in hits : \A k \in hits : i <= k

\* The names the filter/map over get_background_zones collects, in order.
RECURSIVE zones_at(_, _, _)
zones_at(k, x, y) ==
  IF k > Len(get_background_zones) THEN << >>
  ELSE LET z == get_background_zones[k]
       IN (IF contains(z.area, x, y) THEN << z.name >> ELSE << >>)
            \o zones_at(k + 1, x, y)

\* format!("{:.1}", v) as a number of tenths; a value v produced in log mode
\* is held in thousandths, otherwise in units.
fmt_1(v, thousandths) == IF thousandths THEN (v + 50) \div 100 ELSE 10 * v

\* ------------------------------------------------------ drawn geometry
rect_log_y(t, log) ==
  LET x0 == IF log THEN log10(t.freq_start) ELSE t.freq_start
      x1 == IF log THEN log10(t.freq_end) ELSE t.freq_end
      y0 == IF log THEN 0 ELSE t.time_start
      y1 == IF log THEN log10(MAX_TIME) ELSE t.time_end
  IN << << x0, y0 >>, << x1, y0 >>, << x1, y1 >>, << x0, y1 >> >>

\* Task::rect: the four corners of the task; with log the X components are
\* log10 of the frequencies (thousandths).
rect(t, log) ==
  LET x0 == IF log THEN log10(t.freq_start) ELSE t.freq_start
      x1 == IF log THEN log10(t.freq_end) ELSE t.freq_end
  IN << << x0, t.time_start >>, << x1, t.time_start >>,
        << x1, t.time_end >>, << x0, t.time_end >> >>

\* The polygon the main plot draws for a zone: its area, the X components
\* through log10 when log_scale is set.
zone_polygon(z, log) ==
  [ i \in 1 .. Len(z.area) |->
      IF log THEN << log10(z.area[i][1]), z.area[i][2] >> ELSE z.area[i] ]

\* What one pass of the main plot draws with the task list ts in mode log.
draw(ts, log) ==
  [ log |-> log,
    zones |-> [ k \in 1 .. Len(get_background_zones) |->
                  zone_polygon(get_background_zones[k], log) ],
    tasks |-> [ i \in 1 .. Len(ts) |-> rect(ts[i], log) ] ]

NoTooltips == [ pos |-> None, task |-> None, zones |-> None, readout |-> None ]

hover_readout_always(ts, log, data_pos) ==
  LET hovered_freq == IF log THEN powf10(data_pos[1]) ELSE data_pos[1]
      k == first_hit(ts, hovered_freq, data_pos[2])
      zs == zones_at(1, hovered_freq, data_pos[2])
  IN [ pos |-> Some(data_pos),
       task |-> IF k > 0 THEN Some(ts[k].name) ELSE None,
       zones |-> IF k = 0 /\ zs # << >> THEN Some(zs) ELSE None,
       readout |-> Some(<< fmt_1(data_pos[1], log), fmt_1(data_pos[2], FALSE) >>) ]

hover_zones_too(ts, log, data_pos) ==
  LET hovered_freq == IF log THEN powf10(data_pos[1]) ELSE data_pos[1]
      k == first_hit(ts, hovered_freq, data_pos[2])
      zs == zones_at(1, hovered_freq, data_pos[2])
  IN [ pos |-> Some(data_pos),
       task |-> IF k > 0 THEN Some(ts[k].name) ELSE None,
       zones |-> IF zs # << >> THEN Some(zs) ELSE None,
       readout |-> IF k = 0
                     THEN Some(<< fmt_1(data_pos[1], log), fmt_1(data_pos[2], FALSE) >>)
                     ELSE None ]

hover_first_zone_only(ts, log, data_pos) ==
  LET hovered_freq == IF log THEN powf10(data_pos[1]) ELSE data_pos[1]
      k == first_hit(ts, hovered_freq, data_pos[2])
      zs == zones_at(1, hovered_freq, data_pos[2])
  IN [ pos |-> Some(data_pos),
       task |-> IF k > 0 THEN Some(ts[k].name) ELSE None,
       zones |-> IF k = 0 /\ zs # << >> THEN Some(<< zs[1] >>) ELSE None,
       readout |-> IF k = 0
                     THEN Some(<< fmt_1(data_pos[1], log), fmt_1(data_pos[2], FALSE) >>)
                     ELSE None ]

\* The tooltips of one frame for the pointer position data_pos (plot space):
\* the name of the first task hit; else the zone names (a tooltip only when
\* there are some) and the coordinate readout, in tenths, of data_pos itself.
hover(ts, log, data_pos) ==
  LET hovered_freq == IF log THEN powf10(data_pos[1]) ELSE data_pos[1]
      k == first_hit(ts, hovered_freq, data_pos[2])
      zs == zones_at(1, hovered_freq, data_pos[2])
  IN [ pos |-> Some(data_pos),
       task |-> IF k > 0 THEN Some(ts[k].name) ELSE None,
       zones |-> IF k = 0 /\ zs # << >> THEN Some(zs) ELSE None,
       readout |-> IF k = 0
                     THEN Some(<< fmt_1(data_pos[1], log), fmt_1(data_pos[2], FALSE) >>)
                     ELSE None ]

\* ------------------------------------------------------------------- state
VARIABLES
  tasks,           \* MyApp.tasks
  step,            \* MyApp.step
  receiver,        \* tokens in flight in the mpsc channel (tx -> MyApp.receiver)
  old_log_scale,   \* MyApp.old_log_scale
  log_scale,       \* MyApp.log_scale
  zoom_band,       \* MyApp.zoom_band
  force_bounds_x,  \* MyApp.force_bounds_x
  plot_bounds_x,   \* MyApp.plot_bounds_x
  last_bounds_x,   \* MyApp.last_bounds_x
  pc,              \* position of the render thread inside MyApp::update
  app_alive,       \* the MyApp value (and with it the Receiver) exists
  clicked,         \* the widget of the side panel clicked in this frame
  tick_step,       \* `step` local of the ticker thread
  tick_pc,         \* ticker thread: "loop" or "done" (after break)
  msg_queue,       \* the SegQueue<String> of main
  stdin_pc,        \* stdin thread: "loop" or "done"
  emitted,         \* history: number of tokens the ticker has sent
  applied,         \* history: steps handed to update_tasks, in order
  pre_tasks,       \* history: the task list before the last update_tasks
  last_recv,       \* history: outcome of the last try_recv of the render thread
  toggled,         \* this frame's change detection found the scale mode changed
  plot_default_x,  \* what this frame's main plot was given as default_x_bounds
  drawn,           \* what this frame's main plot drew
  first_frame,     \* no plot pass has run yet
  tooltips         \* what the last completed frame showed at the pointer

vars ==
  << tasks, step, receiver, old_log_scale, log_scale, zoom_band,
     force_bounds_x, plot_bounds_x, last_bounds_x, pc, app_alive, clicked,
     tick_step, tick_pc, msg_queue, stdin_pc, emitted, applied, pre_tasks,
     last_recv, toggled, plot_default_x, first_frame, tooltips, drawn >>

uiVars ==
  << old_log_scale, log_scale, zoom_band, force_bounds_x, plot_bounds_x,
     last_bounds_x, clicked, toggled, plot_default_x, first_frame, drawn >>
tickVars == << tick_step, tick_pc, emitted >>
stdinVars == << msg_queue, stdin_pc >>
listVars == << tasks, step, applied, pre_tasks >>
taskVars == << tasks, step, applied, pre_tasks, last_recv >>

\* Inputs of the environment.
Lines == { "l1" }
NoClick == << "none" >>
Checkbox == << "checkbox" >>
Tout == << "Tout" >>
Band(i) == << "band", i >>
Clicks == { NoClick, Checkbox, Tout } \cup { Band(i) : i \in BandIdx }
\* X bounds the plot widget may report (pan/zoom is the widget's business).
WidgetBounds == { << 20, 6000 >>, << 500, 1000 >> }
\* Pointer positions in plot space, as the plots' label formatter sends them.
Pointers ==
  { << 200, 50 >>, << 1100, 50 >>, << 2301, 50 >>, << 2301, 400 >>, << 3041, 50 >> }
PointerInputs == { None } \cup { Some(p) : p \in Pointers }

\* MyApp::new, and main up to run_native.
InitRest ==
  /\ step = 0
  /\ receiver = << >>
  /\ old_log_scale = FALSE
  /\ log_scale = FALSE
  /\ zoom_band = None
  /\ force_bounds_x = Some(get_bounds(FALSE))
  /\ plot_bounds_x = Some(get_bounds(FALSE))
  /\ last_bounds_x = Some(<< 0, 1 >>)
  /\ pc = "recv"
  /\ app_alive = TRUE
  /\ clicked = NoClick
  /\ tick_step = 0
  /\ tick_pc = "loop"
  /\ msg_queue = << >>
  /\ stdin_pc = "loop"
  /\ emitted = 0
  /\ applied = << >>
  /\ pre_tasks = << >>
  /\ last_recv = "none"
  /\ toggled = FALSE
  /\ plot_default_x = None
  /\ drawn = None
  /\ first_frame = TRUE
  /\ tooltips = NoTooltips

Init ==
  /\ tasks = << >>
  /\ InitRest

\* ------------------------------------------------------------- producers
\* Number of live Sender<usize> handles: tx is owned by the ticker thread.
senders == IF tick_pc = "loop" THEN 1 ELSE 0

Tick_skip ==
  /\ tick_pc = "loop"
  /\ IF app_alive
       THEN /\ emitted < MaxTicks
            /\ receiver' = Append(receiver, tick_step)
            /\ tick_step' = (tick_step + 2) % 5
            /\ emitted' = emitted + 1
            /\ UNCHANGED tick_pc
       ELSE /\ tick_pc' = "done"
            /\ UNCHANGED << receiver, tick_step, emitted >>
  /\ UNCHANGED << taskVars, uiVars, stdinVars, pc, app_alive, tooltips >>

Tick_one_cycle ==
  /\ tick_pc = "loop"
  /\ IF app_alive
       THEN /\ emitted < MaxTicks
            /\ receiver' = Append(receiver, tick_step)
            /\ tick_step' = (tick_step + 1) % 5
            /\ emitted' = emitted + 1
            /\ tick_pc' = IF tick_step = 4 THEN "done" ELSE "loop"
       ELSE /\ tick_pc' = "done"
            /\ UNCHANGED << receiver, tick_step, emitted >>
  /\ UNCHANGED << taskVars, uiVars, stdinVars, pc, app_alive, tooltips >>

Tick_bounded ==
  /\ tick_pc = "loop"
  /\ IF app_alive
       THEN /\ emitted < MaxTicks
            /\ Len(receiver) < 2
            /\ receiver' = Append(receiver, tick_step)
            /\ tick_step' = (tick_step + 1) % 5
            /\ emitted' = emitted + 1
            /\ UNCHANGED tick_pc
       ELSE /\ tick_pc' = "done"
            /\ UNCHANGED << receiver, tick_step, emitted >>
  /\ UNCHANGED << taskVars, uiVars, stdinVars, pc, app_alive, tooltips >>

\* One turn of the ticker loop: sleep, send(step), then break on a failed
\* send (the Receiver is gone) or advance step modulo 5.
Tick ==
  /\ tick_pc = "loop"
  /\ IF app_alive
       THEN /\ emitted < MaxTicks
            /\ receiver' = Append(receiver, tick_step)
            /\ tick_step' = (tick_step + 1) % 5
            /\ emitted' = emitted + 1
            /\ UNCHANGED tick_pc
       ELSE /\ tick_pc' = "done"
            /\ UNCHANGED << receiver, tick_step, emitted >>
  /\ UNCHANGED << taskVars, uiVars, stdinVars, pc, app_alive, tooltips >>

\* The stdin thread reads Ok(l): the line is pushed on msg_queue.
StdinLine(l) ==
  /\ stdin_pc = "loop"
  /\ Len(msg_queue) < MaxLines
  /\ msg_queue' = Append(msg_queue, l)
  /\ UNCHANGED << stdin_pc, taskVars, uiVars, tickVars, receiver, pc, app_alive,
                  tooltips >>

StdinStop_stops_ticker ==
  /\ stdin_pc = "loop"
  /\ stdin_pc' = "done"
  /\ tick_pc' = "done"
  /\ UNCHANGED << msg_queue, taskVars, uiVars, tick_step, emitted, receiver, pc,
                  app_alive, tooltips >>

\* The stdin thread reads Err(e) (break) or reaches the end of input.
StdinStop ==
  /\ stdin_pc = "loop"
  /\ stdin_pc' = "done"
  /\ UNCHANGED << msg_queue, taskVars, uiVars, tickVars, receiver, pc, app_alive,
                  tooltips >>

\* ------------------------------------------------- MyApp::update, one frame
RecvStep_drain ==
  /\ app_alive
  /\ pc = "recv"
  /\ LET r == try_recv(receiver, senders) IN
       /\ IF r.ok
            THEN LET n == IF Len(receiver) >= 2 THEN 2 ELSE 1
                     t1 == update_tasks(tasks, receiver[1])
                 IN /\ receiver' = SubSeq(receiver, n + 1, Len(receiver))
                    /\ step' = receiver[n]
                    /\ tasks' = IF n = 2 THEN update_tasks(t1, receiver[2]) ELSE t1
                    /\ applied' = applied \o SubSeq(receiver, 1, n)
                    /\ pre_tasks' = IF n = 2 THEN t1 ELSE tasks
            ELSE UNCHANGED << receiver, listVars >>
       /\ last_recv' = IF r.ok THEN "Ok" ELSE r.err
  /\ tooltips' = NoTooltips
  /\ pc' = "detect"
  /\ UNCHANGED << uiVars, tickVars, stdinVars, app_alive >>

RecvStep_blocking ==
  /\ app_alive
  /\ pc = "recv"
  /\ receiver # << >>
  /\ receiver' = Tail(receiver)
  /\ step' = Head(receiver)
  /\ tasks' = update_tasks(tasks, Head(receiver))
  /\ applied' = Append(applied, Head(receiver))
  /\ pre_tasks' = tasks
  /\ last_recv' = "Ok"
  /\ tooltips' = NoTooltips
  /\ pc' = "detect"
  /\ UNCHANGED << uiVars, tickVars, stdinVars, app_alive >>

RecvStep_lossy ==
  /\ app_alive
  /\ pc = "recv"
  /\ LET r == try_recv(receiver, senders) IN
       /\ IF r.ok
            THEN /\ receiver' = << >>
                 /\ step' = r.val
                 /\ tasks' = update_tasks(tasks, r.val)
                 /\ applied' = Append(applied, r.val)
                 /\ pre_tasks' = tasks
            ELSE UNCHANGED << receiver, listVars >>
       /\ last_recv' = IF r.ok THEN "Ok" ELSE r.err
  /\ tooltips' = NoTooltips
  /\ pc' = "detect"
  /\ UNCHANGED << uiVars, tickVars, stdinVars, app_alive >>

\* if let Ok(step) = self.receiver.try_recv() { self.step = step;
\*                                              self.update_tasks(step); }
RecvStep ==
  /\ app_alive
  /\ pc = "recv"
  /\ LET r == try_recv(receiver, senders) IN
       /\ IF r.ok
            THEN /\ receiver' = Tail(receiver)
                 /\ step' = r.val
                 /\ tasks' = update_tasks(tasks, r.val)
                 /\ applied' = Append(applied, r.val)
                 /\ pre_tasks' = tasks
            ELSE UNCHANGED << receiver, listVars >>
       /\ last_recv' = IF r.ok THEN "Ok" ELSE r.err
  /\ tooltips' = NoTooltips
  /\ pc' = "detect"
  /\ UNCHANGED << uiVars, tickVars, stdinVars, app_alive >>

DetectStep_keep_band ==
  /\ pc = "detect"
  /\ IF log_scale # old_log_scale
       THEN /\ old_log_scale' = log_scale
            /\ force_bounds_x' = Some(get_bounds(log_scale))
            /\ UNCHANGED zoom_band
       ELSE UNCHANGED << old_log_scale, zoom_band, force_bounds_x >>
  /\ toggled' = (log_scale # old_log_scale)
  /\ pc' = "panel"
  /\ UNCHANGED << log_scale, plot_bounds_x, last_bounds_x, clicked,
                  plot_default_x, drawn, first_frame, tooltips,
                  taskVars, tickVars, stdinVars, receiver, app_alive >>

DetectStep_every_frame ==
  /\ pc = "detect"
  /\ old_log_scale' = log_scale
  /\ zoom_band' = None
  /\ force_bounds_x' = Some(get_bounds(log_scale))
  /\ toggled' = (log_scale # old_log_scale)
  /\ pc' = "panel"
  /\ UNCHANGED << log_scale, plot_bounds_x, last_bounds_x, clicked,
                  plot_default_x, drawn, first_frame, tooltips,
                  taskVars, tickVars, stdinVars, receiver, app_alive >>

\* if self.log_scale != self.old_log_scale { ... }
DetectStep ==
  /\ pc = "detect"
  /\ IF log_scale # old_log_scale
       THEN /\ old_log_scale' = log_scale
            /\ zoom_band' = None
            /\ force_bounds_x' = Some(get_bounds(log_scale))
       ELSE UNCHANGED << old_log_scale, zoom_band, force_bounds_x >>
  /\ toggled' = (log_scale # old_log_scale)
  /\ pc' = "panel"
  /\ UNCHANGED << log_scale, plot_bounds_x, last_bounds_x, clicked,
                  plot_default_x, drawn, first_frame, tooltips,
                  taskVars, tickVars, stdinVars, receiver, app_alive >>

band_bounds_raw(i, log) == << bands[i + 1][2], bands[i + 1][3] >>

\* (xmin, xmax) of band i under the scale mode `log` (side panel).
band_bounds(i, log) ==
  IF log THEN << log10(bands[i + 1][2]), log10(bands[i + 1][3]) >>
         ELSE << bands[i + 1][2], bands[i + 1][3] >>

\* The side panel: the checkbox, the five band labels, then "Tout"; c is the
\* widget the pointer clicked in this frame.
PanelStep(c) ==
  /\ pc = "panel"
  /\ log_scale' = IF c = Checkbox THEN ~log_scale ELSE log_scale
  /\ IF c[1] = "band"
       THEN /\ zoom_band' = Some(c[2])
            /\ force_bounds_x' = Some(band_bounds(c[2], log_scale'))
       ELSE IF c = Tout
         THEN /\ zoom_band' = None
              /\ force_bounds_x' = Some(get_bounds(log_scale'))
         ELSE UNCHANGED << zoom_band, force_bounds_x >>
  /\ clicked' = c
  /\ pc' = "plot"
  /\ UNCHANGED << old_log_scale, plot_bounds_x, last_bounds_x,
                  toggled, plot_default_x, drawn, first_frame, tooltips,
                  taskVars, tickVars, stdinVars, receiver, app_alive >>

PlotStep_keep_forced(b) ==
  /\ pc = "plot"
  /\ plot_default_x' = force_bounds_x
  /\ drawn' = Some(draw(tasks, log_scale))
  /\ UNCHANGED force_bounds_x
  /\ IF last_bounds_x # Some(b)
       THEN /\ plot_bounds_x' = Some(b)
            /\ last_bounds_x' = Some(b)
       ELSE UNCHANGED << plot_bounds_x, last_bounds_x >>
  /\ clicked' = NoClick
  /\ toggled' = FALSE
  /\ first_frame' = FALSE
  /\ pc' = "tooltip"
  /\ UNCHANGED << old_log_scale, log_scale, zoom_band, tooltips,
                  taskVars, tickVars, stdinVars, receiver, app_alive >>

PlotStep_last_only(b) ==
  /\ pc = "plot"
  /\ plot_default_x' = force_bounds_x
  /\ drawn' = Some(draw(tasks, log_scale))
  /\ force_bounds_x' = None
  /\ IF last_bounds_x # Some(b)
       THEN /\ last_bounds_x' = Some(b)
            /\ UNCHANGED plot_bounds_x
       ELSE UNCHANGED << plot_bounds_x, last_bounds_x >>
  /\ clicked' = NoClick
  /\ toggled' = FALSE
  /\ first_frame' = FALSE
  /\ pc' = "tooltip"
  /\ UNCHANGED << old_log_scale, log_scale, zoom_band, tooltips,
                  taskVars, tickVars, stdinVars, receiver, app_alive >>

\* The main plot: force_bounds_x.take() goes into default_x_bounds, then the
\* bookkeeping of the bounds b the widget reports, then the zones and the
\* tasks are drawn in the mode log_scale; the panel's click and the change
\* detection of this frame are over.
PlotStep(b) ==
  /\ pc = "plot"
  /\ plot_default_x' = force_bounds_x
  /\ drawn' = Some(draw(tasks, log_scale))
  /\ force_bounds_x' = None
  /\ IF last_bounds_x # Some(b)
       THEN /\ plot_bounds_x' = Some(b)
            /\ last_bounds_x' = Some(b)
       ELSE UNCHANGED << plot_bounds_x, last_bounds_x >>
  /\ clicked' = NoClick
  /\ toggled' = FALSE
  /\ first_frame' = FALSE
  /\ pc' = "tooltip"
  /\ UNCHANGED << old_log_scale, log_scale, zoom_band, tooltips,
                  taskVars, tickVars, stdinVars, receiver, app_alive >>

\* The tooltips: label_rx.try_recv() yields the point p the label formatter
\* of the hovered plot sent during this frame, or nothing.  The frame ends
\* here and the plot builder goes.
TooltipStep(p) ==
  /\ pc = "tooltip"
  /\ tooltips' = IF p = None THEN NoTooltips ELSE hover(tasks, log_scale, p[1])
  /\ plot_default_x' = None
  /\ drawn' = None
  /\ pc' = "recv"
  /\ UNCHANGED << old_log_scale, log_scale, zoom_band, force_bounds_x,
                  plot_bounds_x, last_bounds_x, clicked, toggled, first_frame,
                  taskVars, tickVars, stdinVars, receiver, app_alive >>

Frame ==
  \/ RecvStep
  \/ DetectStep
  \/ \E c \in Clicks : PanelStep(c)
  \/ \E b \in WidgetBounds : PlotStep(b)
  \/ \E p \in PointerInputs : TooltipStep(p)

\* run_native returns between two frames: the MyApp value, and with it the
\* Receiver, is dropped; the window and what it showed are gone.
Close ==
  /\ app_alive
  /\ pc = "recv"
  /\ app_alive' = FALSE
  /\ tooltips' = NoTooltips
  /\ UNCHANGED << taskVars, uiVars, tickVars, stdinVars, receiver, pc >>

Next ==
  \/ Tick
  \/ \E l \in Lines : StdinLine(l)
  \/ StdinStop
  \/ Frame
  \/ Close

Spec == Init /\ [][Next]_vars

\* request_repaint() in every frame keeps frames coming while the view lives.
LiveSpec == Spec /\ WF_vars(Frame)

\* ------------------------------------------ update_tasks as a pure function
TaskSet == { InitCapteurs, Transmission, SleepMode }
TaskLists(n) == UNION { [ 1 .. k -> TaskSet ] : k \in 0 .. n }

\* Any task list of at most MaxLen of the recipe's tasks, nothing applied yet.
RecipeInit ==
  /\ tasks \in TaskLists(MaxLen)
  /\ InitRest

\* self.step = s; self.update_tasks(s) for an arbitrary s (the history keeps
\* the last call only).
UpdateTasksCall(s) ==
  /\ Len(tasks) <= MaxLen
  /\ step' = s
  /\ tasks' = update_tasks(tasks, s)
  /\ applied' = << s >>
  /\ pre_tasks' = tasks
  /\ UNCHANGED << last_recv, uiVars, tickVars, stdinVars, receiver, pc, app_alive,
                  tooltips >>

RecipeNext == \E s \in 0 .. MaxStepArg : UpdateTasksCall(s)

RecipeSpec == RecipeInit /\ [][RecipeNext]_vars

\* ------------------------------------------ the hover query as a function
\* Points in and around the zones and the tasks, edges and corners included
\* (MHz, ms), for a Linear plot.
ProbeX ==
  { 10, 20, 99, 100, 300, 301, 500, 960, 1000, 1215, 2400, 2500, 3000, 5000,
    5500, 6000, 6001 }
ProbeY == { -1, 0, 50, 100, 150, 299, 300, 301, 600, 601, 1000, 1100, 1125, 1126 }
ProbePoints == ProbeX \X ProbeY

HoverInit ==
  /\ tasks \in TaskLists(MaxHoverLen)
  /\ InitRest

\* The tooltips section run on the point p.
HoverCall(p) ==
  /\ tooltips' = hover(tasks, log_scale, p)
  /\ UNCHANGED << taskVars, uiVars, tickVars, stdinVars, receiver, pc, app_alive >>

HoverNext == \E p \in ProbePoints : HoverCall(p)

HoverSpec == HoverInit /\ [][HoverNext]_vars

\* ------------------------------------------------------------------ claims
TickerSeq(n) == [ i \in 1 .. n |-> (i - 1) % RecipeLen ]
toPlotX(f, log) == IF log THEN log10(f) ELSE f
RecvTaken == pc = "recv" /\ pc' = "detect"
DetectTaken == pc = "detect" /\ pc' = "panel"

\* C1: a frame applies at most one token to the task list, however many are
\* queued (only the frame's try_recv step changes tasks/step, and it takes
\* one token); with an empty channel at try_recv, tasks and step are unchanged.
C1_AtMostOneTokenPerFrame ==
  [][ /\ Len(applied') <= Len(applied) + 1
      /\ Len(receiver') >= Len(receiver) - 1
      /\ (tasks' # tasks \/ step' # step \/ applied' # applied) => RecvTaken
      /\ (RecvTaken /\ receiver # << >>) =>
            /\ applied' = Append(applied, Head(receiver))
            /\ receiver' = Tail(receiver)
      /\ (RecvTaken /\ receiver = << >>) =>
            /\ tasks' = tasks
            /\ step' = step
            /\ applied' = applied ]_vars

C1_Witness ==
  /\ pc = "detect"
  /\ last_recv = "Ok"
  /\ Len(applied) = 1
  /\ Len(receiver) >= 2

\* C2: the steps applied, followed by the tokens still queued, are exactly
\* the tokens the ticker has sent, 0,1,2,3,4,0,... in that order: nothing is
\* skipped, duplicated or reordered.
C2_TickerOrder ==
  /\ applied \o receiver = TickerSeq(emitted)
  /\ \A i \in 1 .. Len(applied) : applied[i] = (i - 1) % RecipeLen

C2_Witness ==
  /\ Len(applied) = RecipeLen + 1
  /\ applied[RecipeLen + 1] = 0
  /\ step = 0

\* C3: every line the stdin reader has pushed is eventually taken by the
\* render loop (as long as the view lives).
C3_LinesReachConsumer ==
  (msg_queue # << >>) ~> (msg_queue = << >> \/ ~app_alive)

\* C4: while frames keep running, every token the ticker has sent is
\* eventually applied, and exactly once: applied and queued tokens together
\* are always the tokens sent, and again and again the render loop has caught
\* up with the ticker (a token sent by then has been applied by then),
\* whatever backlog a burst had built up, unless the view is closed.
C4_EventualDelivery ==
  /\ [](Len(applied) + Len(receiver) = emitted)
  /\ []<>(Len(applied) = emitted \/ ~app_alive)

C4_Witness ==
  /\ emitted = MaxTicks
  /\ Len(applied) = MaxTicks
  /\ receiver = << >>

\* C5: the render loop never waits for a producer: while the view lives the
\* next step of the frame is enabled in every channel state; a failed
\* try_recv (Empty or Disconnected alike) leaves the task list and the step
\* as they were.
C5_NeverStalls ==
  /\ [](app_alive => ENABLED Frame)
  /\ [][ (RecvTaken /\ ~try_recv(receiver, senders).ok) =>
            (tasks' = tasks /\ step' = step /\ last_recv' # "Ok") ]_vars

C5_Witness ==
  /\ pc = "detect"
  /\ last_recv = "Empty"
  /\ tasks # << >>

\* C6: the recipe of update_tasks: 0, 1, 3 append exactly one task (Init
\* capteurs 100-300 MHz / 0-300 ms, Transmission, Sleep mode), 2 removes
\* exactly the last task, 4 empties the list; 2 and 4 on an empty list leave
\* it empty.
C6_RecipeEffects ==
  applied # << >> =>
    LET n == Len(pre_tasks)
        appended(name) ==
          /\ Len(tasks) = n + 1
          /\ SubSeq(tasks, 1, n) = pre_tasks
          /\ tasks[n + 1].name = name
    IN /\ step = 0 =>
            /\ appended("Init capteurs")
            /\ tasks[n + 1].freq_start = 100 /\ tasks[n + 1].freq_end = 300
            /\ tasks[n + 1].time_start = 0 /\ tasks[n + 1].time_end = 300
       /\ step = 1 => appended("Transmission")
       /\ step = 3 => appended("Sleep mode")
       /\ step = 2 =>
            IF n = 0 THEN tasks = << >>
            ELSE /\ Len(tasks) = n - 1
                 /\ \A i \in 1 .. n - 1 : tasks[i] = pre_tasks[i]
       /\ step = 4 => tasks = << >>

C6_Witness ==
  /\ applied = << 2 >>
  /\ Len(pre_tasks) = MaxLen
  /\ pre_tasks[1] # pre_tasks[MaxLen]
  /\ tasks = SubSeq(pre_tasks, 1, MaxLen - 1)

\* C7 as stated: applying step s has the effect of applying s mod 5.
C7_StepModRecipeLen ==
  applied # << >> => tasks = update_tasks(pre_tasks, step % RecipeLen)

\* C7, amended: the mutation is selected by the step itself; steps 0..4
\* select the five mutations and every step >= 5 leaves the list unchanged.
C7_StepsAboveFourAreNoOps ==
  applied # << >> =>
    /\ step = applied[1]
    /\ step < RecipeLen => tasks = update_tasks(pre_tasks, step % RecipeLen)
    /\ step >= RecipeLen => tasks = pre_tasks

C7_Witness ==
  /\ applied = << RecipeLen >>
  /\ step = RecipeLen
  /\ pre_tasks = << >>
  /\ tasks = << >>

\* C8: when a frame's change detection finds the scale mode toggled, it
\* clears zoom_band and sets force_bounds_x to the full range of the new
\* mode, (log10(20), log10(6000)) in Log10 and (20, 6000) in Linear, whatever
\* band was selected.
C8_ToggleResetsViewport ==
  [][ (DetectTaken /\ log_scale # old_log_scale) =>
        /\ zoom_band' = None
        /\ log_scale' = log_scale
        /\ force_bounds_x' = Some(get_bounds(log_scale'))
        /\ log_scale' => force_bounds_x' = Some(<< 1301, 3778 >>)
        /\ ~log_scale' => force_bounds_x' = Some(<< 20, 6000 >>) ]_vars

C8_Witness ==
  /\ pc = "panel"
  /\ log_scale /\ old_log_scale
  /\ zoom_band = None
  /\ force_bounds_x = Some(<< log10(20), log10(6000) >>)

\* C9: after the change detection old_log_scale equals log_scale; without a
\* toggle it changes neither zoom_band nor force_bounds_x; log_scale changes
\* only in the side panel and old_log_scale only in the change detection, so
\* a band selected after a toggle stays selected across frames.
C9_ToggleFiresOnce ==
  [][ /\ DetectTaken => old_log_scale' = log_scale'
      /\ (DetectTaken /\ log_scale = old_log_scale) =>
            /\ zoom_band' = zoom_band
            /\ force_bounds_x' = force_bounds_x
      /\ log_scale' # log_scale => pc = "panel"
      /\ old_log_scale' # old_log_scale => pc = "detect"
      /\ zoom_band' # zoom_band =>
            \/ pc = "panel"
            \/ pc = "detect" /\ log_scale # old_log_scale ]_vars

C9_Witness ==
  /\ pc = "panel"
  /\ log_scale /\ old_log_scale
  /\ zoom_band = Some(1)
  /\ force_bounds_x = None

\* C10: after the side panel, a click on band i has set zoom_band = Some(i)
\* and force_bounds_x to the i-th catalogue interval through toPlotX of the
\* current mode; a click on "Tout" has set zoom_band = None and
\* force_bounds_x to the full range of the mode; zoom_band is None or an
\* index in 0..4.
C10_BandSelection ==
  /\ zoom_band \in { None } \cup { Some(i) : i \in 0 .. 4 }
  /\ (pc = "plot" /\ clicked[1] = "band") =>
        LET i == clicked[2] IN
          /\ i \in 0 .. 4
          /\ zoom_band = Some(i)
          /\ force_bounds_x = Some(<< toPlotX(bands[i + 1][2], log_scale),
                                      toPlotX(bands[i + 1][3], log_scale) >>)
  /\ (pc = "plot" /\ clicked = Tout) =>
        /\ zoom_band = None
        /\ force_bounds_x = Some(get_bounds(log_scale))

C10_Witness ==
  /\ pc = "plot"
  /\ clicked = Band(2)
  /\ log_scale
  /\ zoom_band = Some(2)
  /\ force_bounds_x = Some(<< 2982, 3085 >>)

PlotTaken == pc = "plot" /\ pc' = "tooltip"
Selection(c) == c = Tout \/ c[1] = "band"

\* C11: force_bounds_x is a one-shot override: the main plot takes it (what
\* it held goes to default_x_bounds, and it is None afterwards), so it is
\* None when a frame ends and when every frame but the first begins; the
\* first plot pass, with no selection before it, takes the initial full
\* linear range; a plot is given bounds only by the take of its own frame,
\* and a value is written only by the change detection or the side panel.
C11_OneShotOverride ==
  /\ [](pc = "tooltip" => force_bounds_x = None)
  /\ []((pc \in { "recv", "detect" } /\ ~first_frame) => force_bounds_x = None)
  /\ [][ /\ PlotTaken =>
              /\ plot_default_x' = force_bounds_x
              /\ force_bounds_x' = None
         /\ (PlotTaken /\ first_frame /\ ~Selection(clicked)) =>
              plot_default_x' = Some(<< MIN_FREQ, MAX_FREQ >>)
         /\ (plot_default_x' # plot_default_x /\ plot_default_x' # None) =>
              PlotTaken
         /\ (force_bounds_x' # force_bounds_x /\ force_bounds_x' # None) =>
              pc \in { "detect", "panel" } ]_vars

C11_Witness ==
  /\ pc = "tooltip"
  /\ ~log_scale
  /\ plot_default_x = Some(<< 960, 1215 >>)
  /\ force_bounds_x = None

\* What the bookkeeping of the main plot does with the bounds b the widget
\* reports.
BoundsBookkeeping ==
  /\ [](pc = "plot" =>
          \A b \in WidgetBounds :
            ENABLED ( /\ PlotStep(b)
                      /\ IF last_bounds_x # Some(b)
                           THEN /\ last_bounds_x' = Some(b)
                                /\ plot_bounds_x' = Some(b)
                           ELSE /\ last_bounds_x' = last_bounds_x
                                /\ plot_bounds_x' = plot_bounds_x ))
  /\ [][ (last_bounds_x' # last_bounds_x \/ plot_bounds_x' # plot_bounds_x) =>
            PlotTaken ]_vars

\* C12 as stated: in a frame without a detected toggle and without a band or
\* "Tout" selection the main plot is given no bounds (force_bounds_x is None
\* when the plot pass starts); last_bounds_x and plot_bounds_x are written
\* only by the plot pass, only when the reported bounds differ from
\* last_bounds_x, and then both take the reported value.
C12_NoOverrideWithoutRequest ==
  /\ []((pc = "plot" /\ ~toggled /\ ~Selection(clicked)) =>
          force_bounds_x = None)
  /\ BoundsBookkeeping

\* C12, amended: the same in every frame after the first.
C12_NoOverrideAfterFirstFrame ==
  /\ []((pc = "plot" /\ ~first_frame /\ ~toggled /\ ~Selection(clicked)) =>
          force_bounds_x = None)
  /\ BoundsBookkeeping

C12_Witness ==
  /\ pc = "tooltip"
  /\ plot_default_x = None
  /\ zoom_band = Some(0)
  /\ last_bounds_x = Some(<< 500, 1000 >>)
  /\ plot_bounds_x = Some(<< 500, 1000 >>)

\* The hover query of the last frame: the frequency and time under the
\* pointer, and the stored tasks whose rectangle holds them.
fromPlotX(px, log) == IF log THEN powf10(px) ELSE px
HoverFreq == fromPlotX(tooltips.pos[1][1], log_scale)
HoverY == tooltips.pos[1][2]
HoverHits ==
  { i \in 1 .. Len(tasks) :
      /\ tasks[i].freq_start <= HoverFreq /\ HoverFreq <= tasks[i].freq_end
      /\ tasks[i].time_start <= HoverY /\ HoverY <= tasks[i].time_end }
HoverZoneNames ==
  LET inside == SelectSeq(get_background_zones,
                          LAMBDA z : contains(z.area, HoverFreq, HoverY))
  IN [ i \in 1 .. Len(inside) |-> inside[i].name ]

\* C13: when some stored task holds the pointer, the task tooltip names the
\* first such task in stored order, it is the only task reported, and no
\* zone name is reported, even where zones hold the point too; when none
\* does, no task is reported.
C13_HoverPrecedence ==
  tooltips.pos # None =>
    /\ HoverHits # { } =>
         /\ \E i \in HoverHits :
              /\ \A k \in HoverHits : i <= k
              /\ tooltips.task = Some(tasks[i].name)
         /\ tooltips.zones = None
    /\ HoverHits = { } => tooltips.task = None

C13_Witness ==
  /\ tooltips.pos = Some(<< 200, 50 >>)
  /\ ~log_scale
  /\ tasks = << InitCapteurs, Transmission >>
  /\ tooltips.task = Some("Init capteurs")
  /\ HoverZoneNames = << "Zone de réception", "Amplifier 20-500MHz" >>
  /\ tooltips.zones = None

\* C14: when no task holds the pointer, the zone tooltip lists exactly the
\* zones whose polygon contains (freq, py), in zone order, and there is none
\* when no zone does: 1100 MHz, 50 ms gives the receiver zone and the
\* 960-1215 and 1000-2500 amplifier zones together; a frequency below 20 MHz
\* gives no zone name.
C14_ZonesUnderPointer ==
  (tooltips.pos # None /\ HoverHits = { }) =>
    /\ tooltips.zones =
         IF HoverZoneNames = << >> THEN None ELSE Some(HoverZoneNames)
    /\ (HoverFreq = 1100 /\ HoverY = 50) =>
         tooltips.zones = Some(<< "Zone de réception", "Amplifier 960-1215MHz",
                                  "Amplifier 1000-2500MHz" >>)
    /\ HoverFreq < MIN_FREQ => tooltips.zones = None

C14_Witness ==
  /\ tooltips.pos = Some(<< 1100, 50 >>)
  /\ ~log_scale
  /\ tasks = << InitCapteurs, Transmission >>
  /\ tooltips.task = None
  /\ tooltips.zones = Some(<< "Zone de réception", "Amplifier 960-1215MHz",
                              "Amplifier 1000-2500MHz" >>)

\* C15: every hover query shows the coordinate readout, also one that shows
\* a task tooltip.
C15_ReadoutAlwaysShown ==
  tooltips.pos # None => tooltips.readout # None

\* C16: the readout shows the frequency fromPlotX(px, mode), 10^px in Log10
\* mode and px in Linear mode, and the time py, each with one decimal.
C16_ReadoutInActiveUnits ==
  tooltips.readout # None =>
    tooltips.readout = Some(<< fmt_1(HoverFreq, FALSE), fmt_1(HoverY, FALSE) >>)

\* C17: the stop of the stdin reader changes nothing but the reader itself
\* (not the task list, the channel, the ticker or the view); with the reader
\* stopped and the view alive the ticker is still in its loop and can send,
\* the next step of the frame is enabled, and a frame that finds a token
\* applies it.
C17_ReadFailureStopsOnlyReader ==
  /\ [][ stdin_pc' # stdin_pc =>
           /\ stdin_pc' = "done"
           /\ UNCHANGED << msg_queue, tasks, step, applied, receiver, tick_step,
                           tick_pc, emitted, app_alive, pc >> ]_vars
  /\ []((stdin_pc = "done" /\ app_alive) =>
          /\ tick_pc = "loop"
          /\ emitted < MaxTicks => ENABLED Tick
          /\ ENABLED Frame)
  /\ [][ (stdin_pc = "done" /\ RecvTaken /\ receiver # << >>) =>
           /\ applied' = Append(applied, Head(receiver))
           /\ tasks' = update_tasks(tasks, Head(receiver)) ]_vars

C17_Witness ==
  /\ stdin_pc = "done"
  /\ msg_queue = << >>
  /\ app_alive
  /\ emitted = MaxTicks
  /\ Len(applied) = MaxTicks
  /\ tick_pc = "loop"

\* C18: while the view lives the ticker is in its loop and its next send is
\* enabled, however many tokens are queued; each send appends the ticker's
\* step to the channel and advances the step modulo 5; the ticker leaves its
\* loop only on a send that fails because the view is gone.
C18_TickerRunsWhileViewLives ==
  /\ [](app_alive => tick_pc = "loop")
  /\ []((app_alive /\ emitted < MaxTicks) =>
          ENABLED (Tick /\ emitted' = emitted + 1))
  /\ [][ tick_pc' # tick_pc =>
           /\ ~app_alive
           /\ tick_pc' = "done"
           /\ UNCHANGED << receiver, emitted, tick_step >> ]_vars
  /\ [][ emitted' # emitted =>
           /\ emitted' = emitted + 1
           /\ receiver' = Append(receiver, tick_step)
           /\ tick_step' = (tick_step + 1) % RecipeLen
           /\ tick_pc' = "loop" ]_vars

C18_Witness ==
  /\ app_alive
  /\ tick_pc = "loop"
  /\ emitted = MaxTicks
  /\ Len(receiver) = MaxTicks
  /\ applied = << >>

C20_TaskRanges ==
  \A i \in 1 .. Len(tasks) :
    LET t == tasks[i]
    IN /\ t.freq_start <= t.freq_end
       /\ t.time_start <= t.time_end
       /\ MIN_FREQ <= t.freq_start /\ t.freq_end <= MAX_FREQ
       /\ 0 <= t.time_start /\ t.time_end <= MAX_TIME

C20_Witness ==
  /\ tasks = << InitCapteurs, SleepMode >>
  /\ tasks[2].time_end = MAX_TIME
  /\ step = 3

\* The zone names the last hover query showed.
ShownZones ==
  IF tooltips.zones = None THEN { }
  ELSE { tooltips.zones[1][i] : i \in 1 .. Len(tooltips.zones[1]) }

\* C21: contains on the receiver-zone rectangle
\* [(20,0),(6000,0),(6000,100),(20,100)] is true for (3000, 50), false for
\* (3000, 150) and for (10, 50); it is true for every point strictly inside
\* the rectangle and false for every point strictly outside it (seen through
\* the zone names of a hover query that hits no task).
C21_ReceiverZoneContains ==
  (tooltips.pos # None /\ tooltips.task = None) =>
    LET x == HoverFreq
        y == HoverY
        shown == "Zone de réception" \in ShownZones
    IN /\ get_background_zones[1].area =
            << << 20, 0 >>, << 6000, 0 >>, << 6000, 100 >>, << 20, 100 >> >>
       /\ (20 < x /\ x < 6000 /\ 0 < y /\ y < 100) => shown
       /\ (x < 20 \/ x > 6000 \/ y < 0 \/ y > 100) => ~shown
       /\ (x = 3000 /\ y = 50) => shown
       /\ (x = 3000 /\ y = 150) => ~shown
       /\ (x = 10 /\ y = 50) => ~shown

C21_Witness ==
  /\ tasks = << >>
  /\ tooltips.pos = Some(<< 3000, 50 >>)
  /\ tooltips.zones = Some(<< "Zone de réception", "Amplifier 2400-6000MHz" >>)

\* C22: the polygon drawn for a task has exactly the 4 vertices
\* (x0, time_start), (x1, time_start), (x1, time_end), (x0, time_end), in
\* this order, with x0 = toPlotX(freq_start) and x1 = toPlotX(freq_end) of
\* the mode drawn: in Linear the task 100-300 MHz / 0-300 ms gives
\* [(100,0),(300,0),(300,300),(100,300)]; in Log10 the X components are
\* log10 of the frequencies and the Y components are those of Linear.
C22_TaskPolygon ==
  drawn # None =>
    LET d == drawn[1] IN
      /\ Len(d.tasks) = Len(tasks)
      /\ \A i \in 1 .. Len(tasks) :
           LET t == tasks[i]
               poly == d.tasks[i]
               x0 == toPlotX(t.freq_start, d.log)
               x1 == toPlotX(t.freq_end, d.log)
           IN /\ Len(poly) = 4
              /\ poly = << << x0, t.time_start >>, << x1, t.time_start >>,
                           << x1, t.time_end >>, << x0, t.time_end >> >>
              /\ (~d.log /\ t = InitCapteurs) =>
                   poly = << << 100, 0 >>, << 300, 0 >>,
                             << 300, 300 >>, << 100, 300 >> >>
              /\ (d.log /\ t = InitCapteurs) =>
                   poly = << << 2000, 0 >>, << 2477, 0 >>,
                             << 2477, 300 >>, << 2000, 300 >> >>
              /\ \A k \in 1 .. 4 : poly[k][2] = rect(t, FALSE)[k][2]

C22_Witness ==
  /\ drawn # None
  /\ drawn[1].log
  /\ tasks = << InitCapteurs, Transmission >>
  /\ drawn[1].tasks[1] = << << 2000, 0 >>, << 2477, 0 >>,
                            << 2477, 300 >>, << 2000, 300 >> >>
  /\ drawn[1].tasks[2] = << << 3000, 300 >>, << 3398, 300 >>,
                            << 3398, 600 >>, << 3000, 600 >> >>

\* C23: no pass of the main plot draws the zones and the tasks in a scale
\* mode that differs from old_log_scale, the mode the change detection has
\* last applied (zoom_band cleared, force_bounds_x set to the bounds of it).
C23_GeometryAfterToggleApplied ==
  drawn # None => drawn[1].log = old_log_scale

\* C24: with the ticker's tokens, once a token has been applied the task list
\* is a function of the last applied step: 0 -> [Init capteurs],
\* 1 -> [Init capteurs, Transmission], 2 -> [Init capteurs],
\* 3 -> [Init capteurs, Sleep mode], 4 -> []; so it holds at most 2 tasks,
\* no task twice, and is empty after step 4; the recorded step is in 0..4.
C24_ListFunctionOfStep ==
  /\ step \in 0 .. 4
  /\ applied # << >> =>
       /\ step = applied[Len(applied)]
       /\ tasks = CASE step = 0 -> << InitCapteurs >>
                    [] step = 1 -> << InitCapteurs, Transmission >>
                    [] step = 2 -> << InitCapteurs >>
                    [] step = 3 -> << InitCapteurs, SleepMode >>
                    [] step = 4 -> << >>
  /\ Len(tasks) <= 2
  /\ \A i, j \in 1 .. Len(tasks) : tasks[i] = tasks[j] => i = j
  /\ (applied # << >> /\ step = 4) => tasks = << >>

C24_Witness ==
  /\ Len(applied) = RecipeLen + 1
  /\ step = 0
  /\ tasks = << InitCapteurs >>
  /\ pre_tasks = << >>

\* C25: the two hit tests classify edges differently.  A zone
\* [fLow, fHigh] x [0, yMax] is reported exactly for fLow <= x < fHigh and
\* 0 <= y < yMax (low edges inside, high edges outside); a task is hit
\* exactly for freq_start <= freq <= freq_end and time_start <= y <= time_end
\* (all four edges inside); a point at 1000 MHz is in the 1000-2500 zone and
\* not in the 500-1000 zone.
C25_BoundaryClassification ==
  tooltips.pos # None =>
    LET x == HoverFreq
        y == HoverY
    IN /\ (tooltips.task # None) <=>
            \E i \in 1 .. Len(tasks) :
              /\ tasks[i].freq_start <= x /\ x <= tasks[i].freq_end
              /\ tasks[i].time_start <= y /\ y <= tasks[i].time_end
       /\ tooltips.task = None =>
            /\ \A k \in 1 .. Len(get_background_zones) :
                 LET z == get_background_zones[k]
                     fLow == z.area[1][1]
                     fHigh == z.area[2][1]
                     yMax == z.area[3][2]
                 IN (z.name \in ShownZones) <=>
                      (fLow <= x /\ x < fHigh /\ 0 <= y /\ y < yMax)
            /\ (x = 1000 /\ 0 <= y /\ y < 1100) =>
                 /\ "Amplifier 1000-2500MHz" \in ShownZones
                 /\ "Amplifier 500-1000MHz" \notin ShownZones

C25_Witness ==
  /\ tasks = << Transmission >>
  /\ tooltips.pos = Some(<< 1000, 299 >>)
  /\ tooltips.task = None
  /\ tooltips.zones = Some(<< "Amplifier 960-1215MHz", "Amplifier 1000-2500MHz" >>)

====
